---- MODULE Spec2Model ----
(***************************************************************************)
(* Block driver (block_driver.c) and frame cache (block_cache.c).          *)
(*                                                                         *)
(* The driver keeps a file table, a handle table and an on/off flag; every *)
(* byte-addressed read/write is cut into frames; each frame goes through   *)
(* the frame cache (get, then put) and the device (executeOpcode).         *)
(* One action per public call of the driver and of the cache; a call runs *)
(* to completion.                                                          *)
(***************************************************************************)
EXTENDS Integers, Sequences, FiniteSets, TLC

----------------------------------------------------------------------------
(* Sizes.  The headers that set the program's sizes are not part of the    *)
(* sources; the model uses small values for them.                          *)

BLOCK_MAX_TOTAL_FILES == 2          \* slots of files[] and handles[]
BLOCK_FRAME_SIZE == 2               \* bytes in a frame
DEFAULT_BLOCK_FRAME_CACHE_SIZE == 2 \* slots of the cache
MaxFrameNr == 5                     \* frames on the device: 0 .. MaxFrameNr-1
MaxLen == 3                         \* longest buffer handed to block_write
MaxCount == 3                       \* largest count handed to block_read
MaxCalls == 6                       \* driver calls in one explored run
AgedGap == 2                        \* touches left before the counter wraps (aged start)

W16 == 65536                        \* uint16_t arithmetic of lastAccess/access
CLOSED == 0
OPEN == 1
NoFrame == 0 - 1                    \* cache[i].frm = -1 : empty slot
NullFile == 0 - 1                   \* handles[i].file = NULL

Paths == { <<1>>, <<1, 2>> }        \* "a", "ab"

FileIdx == 0 .. (BLOCK_MAX_TOTAL_FILES - 1)
FrameNrs == 0 .. (MaxFrameNr - 1)

Min(a, b) == IF a < b THEN a ELSE b
Max(a, b) == IF a < b THEN b ELSE a

----------------------------------------------------------------------------
(* Records of block_driver_helper.h (file_t, fh_t) and frame images.       *)

ZeroFile == [name |-> <<>>, size |-> 0, frames |-> <<>>]
ZeroHandle == [file |-> NullFile, loc |-> 0, status |-> CLOSED]

ZeroBytes == [k \in 1 .. BLOCK_FRAME_SIZE |-> 0]
DataFrame(b) == [kind |-> "data", bytes |-> b, file |-> ZeroFile]
FileFrame(f) == [kind |-> "file", bytes |-> <<>>, file |-> f]
ZeroFrame == DataFrame(ZeroBytes)

\* the first BLOCK_FRAME_SIZE bytes of a frame image (name is the leading field)
FrameBytes(x) ==
    IF x.kind = "data" THEN x.bytes
    ELSE [k \in 1 .. BLOCK_FRAME_SIZE |->
             IF k <= Len(x.file.name) THEN x.file.name[k] ELSE 0]

\* memcpy(&files[i], buf, sizeof(file_t)) of a frame image
FrameFile(x) ==
    IF x.kind = "file" THEN x.file
    ELSE [name |-> SelectSeq(x.bytes, LAMBDA c : c # 0), size |-> 0, frames |-> <<>>]

----------------------------------------------------------------------------
(* block_cache.c.  A cache state is the triple of the globals cache,       *)
(* putTracker and lastAccess; cache is a function slot -> entry while the  *)
(* storage is allocated and <<>> when it is not.                           *)

Inc16(x) == (x + 1) % W16

EmptyEntry == [block |-> 0, frm |-> NoFrame, access |-> 0, cacheFrame |-> ZeroFrame]

NewCache(max) == [i \in 0 .. (max - 1) |-> EmptyEntry]

\* the for-loop of get/put: first slot holding frm, or -1
FindSlot(c, frm) ==
    IF \E i \in DOMAIN c : c[i].frm = frm
    THEN CHOOSE i \in DOMAIN c :
             c[i].frm = frm /\ \A j \in DOMAIN c : c[j].frm = frm => i <= j
    ELSE 0 - 1

\* the eviction scan of put: first slot with the lowest access
LruSlot(c) ==
    CHOOSE i \in DOMAIN c :
        /\ \A j \in DOMAIN c : c[i].access <= c[j].access
        /\ \A j \in DOMAIN c : j < i => c[j].access > c[i].access

\* the slot a put of a frame with no entry goes to
PutSlot(c, tracker, max) == IF tracker < max THEN tracker ELSE LruSlot(c)

\* put that bumps the recency of an existing entry but keeps its old contents
put_block_cache_KeepOld(cs, on, max, block, frm, buf) ==
    IF on = 0 THEN cs
    ELSE LET hit == FindSlot(cs.cache, frm)
             la == Inc16(cs.lastAccess)
         IN IF hit # 0 - 1
            THEN [cs EXCEPT !.lastAccess = la, !.cache[hit].access = la]
            ELSE LET index == PutSlot(cs.cache, cs.putTracker, max)
                 IN [cache |-> [cs.cache EXCEPT ![index] =
                                   [block |-> block, frm |-> frm,
                                    access |-> la, cacheFrame |-> buf]],
                     putTracker |-> IF cs.putTracker < max
                                    THEN cs.putTracker + 1 ELSE cs.putTracker,
                     lastAccess |-> la]

put_block_cache(cs, on, max, block, frm, buf) ==
    IF on = 0 THEN cs
    ELSE LET hit == FindSlot(cs.cache, frm)
             la == Inc16(cs.lastAccess)
         IN IF hit # 0 - 1
            THEN [cs EXCEPT !.lastAccess = la,
                            !.cache[hit].cacheFrame = buf,
                            !.cache[hit].access = la]
            ELSE LET index == PutSlot(cs.cache, cs.putTracker, max)
                 IN [cache |-> [cs.cache EXCEPT ![index] =
                                   [block |-> block, frm |-> frm,
                                    access |-> la, cacheFrame |-> buf]],
                     putTracker |-> IF cs.putTracker < max
                                    THEN cs.putTracker + 1 ELSE cs.putTracker,
                     lastAccess |-> la]

\* What a lookup can return when the storage has been freed: the function
\* does not test cacheOn, so it reads the freed array.  ub is the outcome.
NullPtr == [hit |-> FALSE, frame |-> ZeroFrame]
StaleFrames == { ZeroFrame, DataFrame([k \in 1 .. BLOCK_FRAME_SIZE |-> 2]) }
FreedOutcomes == { NullPtr } \cup { [hit |-> TRUE, frame |-> f] : f \in StaleFrames }

get_block_cache(cs, on, block, frm, ub) ==
    IF on = 0
    THEN IF ub.hit
         THEN [cs |-> [cs EXCEPT !.lastAccess = Inc16(cs.lastAccess)],
               hit |-> TRUE, frame |-> ub.frame]
         ELSE [cs |-> cs, hit |-> FALSE, frame |-> ZeroFrame]
    ELSE LET i == FindSlot(cs.cache, frm)
             la == Inc16(cs.lastAccess)
         IN IF i # 0 - 1
            THEN [cs |-> [cs EXCEPT !.lastAccess = la, !.cache[i].access = la],
                  hit |-> TRUE, frame |-> cs.cache[i].cacheFrame]
            ELSE [cs |-> cs, hit |-> FALSE, frame |-> ZeroFrame]

----------------------------------------------------------------------------
(* Helpers of block_driver_helper.h, as the specification describes them.  *)

createNewFile(path) == [name |-> path, size |-> 0, frames |-> <<>>]
openFile(i) == [file |-> i, loc |-> 0, status |-> OPEN]
closeFile(h) == [h EXCEPT !.status = CLOSED]
closeAllFiles(hs) == [i \in DOMAIN hs |-> closeFile(hs[i])]

getNbFiles(fs) == Cardinality({ i \in DOMAIN fs : fs[i].name # <<>> })

\* first frame after the metadata frames and after every frame of a file
getFreeFrame(fs) ==
    LET used == { BLOCK_MAX_TOTAL_FILES - 1 } \cup
                UNION { { fs[i].frames[k] : k \in DOMAIN fs[i].frames } : i \in DOMAIN fs }
    IN 1 + CHOOSE m \in used : \A u \in used : u <= m

\* frames needed to hold n bytes
FramesFor(n) == (n + BLOCK_FRAME_SIZE - 1) \div BLOCK_FRAME_SIZE

\* frames allocateNewFrames must add so that the file covers loc + count
NewFrames(file, loc, count) == Max(0, FramesFor(loc + count) - Len(file.frames))

allocateNewFrames_ok(file, loc, count, free) ==
    free + NewFrames(file, loc, count) <= MaxFrameNr

allocateNewFrames(file, loc, count, free) ==
    [file EXCEPT !.frames =
        file.frames \o [k \in 1 .. NewFrames(file, loc, count) |-> free + k - 1]]

\* memcmp(files[i].name, path, strlen(path)) == 0
NameMatches(name, path) ==
    /\ Len(path) <= Len(name)
    /\ \A k \in 1 .. Len(path) : name[k] = path[k]

----------------------------------------------------------------------------
(* block_driver.c: the frame loops of block_read and block_write.          *)

\* clamp against the file size, forgetting the cursor
ClampCount_NoCursor(fileSize, loc, count) ==
    IF fileSize < count THEN fileSize ELSE count

\* "Make sure we don't read more bytes than we have"
ClampCount(fileSize, loc, count) ==
    IF fileSize - loc < count THEN fileSize - loc ELSE count

\* bytes of the current frame the request covers
DataSize(frame_offset, remaining) ==
    IF BLOCK_FRAME_SIZE - frame_offset > remaining
    THEN remaining
    ELSE BLOCK_FRAME_SIZE - frame_offset

\* file->frames[loc / BLOCK_FRAME_SIZE]; entries past the allocated ones are 0
FrameAt(file, loc) ==
    LET idx == loc \div BLOCK_FRAME_SIZE
    IN IF idx + 1 \in DOMAIN file.frames THEN file.frames[idx + 1] ELSE 0

\* memcpy(buf + bufOffset, frame + frame_offset, data_size)
CopyOut(frame, frame_offset, data_size) ==
    SubSeq(FrameBytes(frame), frame_offset + 1, frame_offset + data_size)

\* memcpy(frame + frame_offset, buf + bufOffset, data_size)
Overlay(frame, frame_offset, buf, bufOffset, data_size) ==
    DataFrame([k \in 1 .. BLOCK_FRAME_SIZE |->
        IF k > frame_offset /\ k <= frame_offset + data_size
        THEN buf[bufOffset + k - frame_offset]
        ELSE FrameBytes(frame)[k]])

\* the size follows the cursor even when the write ended inside the file
NewSize_Cursor(size, loc) == loc

\* file->size after a write that ended at loc
NewSize(size, loc) == IF size < loc THEN loc ELSE size

\* rejects the position equal to the file size
SeekFails_AtEnd(status, size, loc) == status = CLOSED \/ size <= loc

\* does not look at the handle's status
SeekFails_AnyStatus(status, size, loc) == size < loc

\* does not look at the file's size
SeekFails_NoSizeTest(status, size, loc) == status = CLOSED

\* the test of block_seek
SeekFails(status, size, loc) == status = CLOSED \/ size < loc

\* st = [cs, loc, remaining, buf, trace]; one call per loop iteration
RECURSIVE ReadLoop(_, _, _, _, _, _)
ReadLoop(st, file, dev, on, max, ub) ==
    IF st.remaining = 0 THEN st
    ELSE LET frame_offset == st.loc % BLOCK_FRAME_SIZE
             frame_nr == FrameAt(file, st.loc)
             g == get_block_cache(st.cs, on, 0, frame_nr, ub[Len(st.trace) + 1])
             frame == IF g.hit THEN g.frame ELSE dev[frame_nr]
             cs2 == IF g.hit THEN g.cs
                    ELSE put_block_cache(g.cs, on, max, 0, frame_nr, frame)
             data_size == DataSize(frame_offset, st.remaining)
         IN ReadLoop([cs |-> cs2,
                      loc |-> st.loc + data_size,
                      remaining |-> st.remaining - data_size,
                      buf |-> st.buf \o CopyOut(frame, frame_offset, data_size),
                      trace |-> Append(st.trace, frame_nr)],
                     file, dev, on, max, ub)

\* st = [cs, dev, loc, remaining, bufOffset, trace]
RECURSIVE WriteLoop(_, _, _, _, _, _)
WriteLoop(st, file, buf, on, max, ub) ==
    IF ~ (st.remaining > 0) THEN st
    ELSE LET frame_nr == FrameAt(file, st.loc)
             frame_offset == st.loc % BLOCK_FRAME_SIZE
             g == get_block_cache(st.cs, on, 0, frame_nr, ub[Len(st.trace) + 1])
             frame0 == IF g.hit THEN g.frame ELSE st.dev[frame_nr]
             data_size == DataSize(frame_offset, st.remaining)
             frame == Overlay(frame0, frame_offset, buf, st.bufOffset, data_size)
         IN WriteLoop([cs |-> put_block_cache(g.cs, on, max, 0, frame_nr, frame),
                       dev |-> [st.dev EXCEPT ![frame_nr] = frame],
                       loc |-> st.loc + data_size,
                       remaining |-> st.remaining - data_size,
                       bufOffset |-> st.bufOffset + data_size,
                       trace |-> Append(st.trace, frame_nr)],
                      file, buf, on, max, ub)

\* loop iterations of a call that covers count bytes from loc
Iterations(loc, count) ==
    IF count > 0
    THEN ((loc + count - 1) \div BLOCK_FRAME_SIZE) - (loc \div BLOCK_FRAME_SIZE) + 1
    ELSE 0

\* outcomes of the lookups of one call, one per iteration; while the storage
\* is allocated the lookup is a function of the cache and the outcome unused
Lookups(on, n) ==
    IF on = 0 THEN [1 .. n -> FreedOutcomes] ELSE { [k \in 1 .. n |-> NullPtr] }

----------------------------------------------------------------------------
(* State.                                                                  *)

VARIABLES
    isOn, nbFiles, nbHandles, freeFrameNr, files, handles,   \* block_driver.c
    block_cache_max_items, cache, putTracker, lastAccess, cacheOn, \* block_cache.c
    device,      \* frames of the storage behind executeOpcode
    call,        \* the last call: operation, handle, count or position, return
                 \* value, and the bytes a read put in the caller's buffer
    rt,          \* progress of a write / seek / read of one range
    snap,        \* the file table as it was when block_poweroff was called
    window,      \* the frames last passed through the cache, oldest first
    powered,     \* 1 from a successful block_poweron to a successful block_poweroff
    calls        \* number of calls made so far

driverVars == <<isOn, nbFiles, nbHandles, freeFrameNr, files, handles>>
cacheVars == <<block_cache_max_items, cache, putTracker, lastAccess, cacheOn>>
vars == <<isOn, nbFiles, nbHandles, freeFrameNr, files, handles,
          block_cache_max_items, cache, putTracker, lastAccess, cacheOn,
          device, call, rt, snap, window, powered, calls>>

NoCall == [op |-> "none", fd |-> 0 - 1, n |-> 0, ret |-> 0, buf |-> <<>>]
Call(op, fd, n, ret, buf) == [op |-> op, fd |-> fd, n |-> n, ret |-> ret, buf |-> buf]

NoRt == [stage |-> 0, fd |-> 0 - 1, p |-> 0, data |-> <<>>]

\* files[0 .. nbFiles-1] : the entries block_open searches
FileTable(fs, n) == [i \in 0 .. (n - 1) |-> [size |-> fs[i].size, frames |-> fs[i].frames]]

\* the last max+1 frames that went through the cache
Slide(w, trace, max) ==
    LET all == w \o trace
    IN IF Len(all) > max + 1 THEN SubSeq(all, Len(all) - max, Len(all)) ELSE all

InitWith(tracker, la) ==
    /\ isOn = 0
    /\ nbFiles = 0
    /\ nbHandles = 0
    /\ freeFrameNr = 0
    /\ files = [i \in FileIdx |-> ZeroFile]
    /\ handles = [i \in FileIdx |-> ZeroHandle]
    /\ block_cache_max_items = DEFAULT_BLOCK_FRAME_CACHE_SIZE
    /\ cache = <<>>
    /\ putTracker = tracker
    /\ lastAccess = la
    /\ cacheOn = 0
    /\ device = [f \in FrameNrs |-> ZeroFrame]
    /\ call = NoCall
    /\ rt = NoRt
    /\ snap = <<>>
    /\ window = <<>>
    /\ powered = 0
    /\ calls = 0

\* the program as loaded
Init == InitWith(0, 0)

----------------------------------------------------------------------------
(* block_driver.c: the public calls.                                       *)

\* a search that never finds the entry
FindFile_NeverFound(fs, n, path) == n

\* the while-loop of block_open: first entry matching path, or n
FindFile(fs, n, path) ==
    IF \E i \in 0 .. (n - 1) : NameMatches(fs[i].name, path)
    THEN CHOOSE i \in 0 .. (n - 1) :
             /\ NameMatches(fs[i].name, path)
             /\ \A j \in 0 .. (i - 1) : ~ NameMatches(fs[j].name, path)
    ELSE n

block_poweron ==
    /\ IF isOn # 0
       THEN /\ call' = Call("poweron", 0 - 1, 0, 0 - 1, <<>>)
            /\ UNCHANGED <<driverVars, cacheVars, window, powered>>
       ELSE LET loaded == [i \in FileIdx |-> FrameFile(device[i])]
            IN /\ isOn' = 1
               /\ handles' = [i \in FileIdx |-> ZeroHandle]
               /\ files' = loaded
               /\ nbHandles' = 0
               /\ freeFrameNr' = getFreeFrame(loaded)
               /\ nbFiles' = getNbFiles(loaded)
               /\ IF cacheOn # 0
                  THEN /\ call' = Call("poweron", 0 - 1, 0, 0 - 1, <<>>)
                       /\ UNCHANGED <<cacheVars, window, powered>>
                  ELSE /\ cache' = NewCache(block_cache_max_items)
                       /\ cacheOn' = 1
                       /\ window' = <<>>
                       /\ powered' = 1
                       /\ call' = Call("poweron", 0 - 1, 0, 0, <<>>)
                       /\ UNCHANGED <<block_cache_max_items, putTracker, lastAccess>>
    /\ rt' = NoRt
    /\ snap' = <<>>
    /\ UNCHANGED device

block_poweroff ==
    /\ IF isOn = 0 \/ cacheOn = 0
       THEN /\ call' = Call("poweroff", 0 - 1, 0, 0 - 1, <<>>)
            /\ snap' = <<>>
            /\ UNCHANGED <<driverVars, cacheVars, device, window, powered>>
       ELSE /\ cache' = <<>>
            /\ cacheOn' = 0
            /\ device' = [f \in FrameNrs |->
                            IF f \in FileIdx THEN FileFrame(files[f]) ELSE device[f]]
            /\ handles' = closeAllFiles(handles)
            /\ nbFiles' = 0
            /\ nbHandles' = 0
            /\ freeFrameNr' = 0
            /\ window' = <<>>
            /\ powered' = 0
            /\ snap' = FileTable(files, nbFiles)
            /\ call' = Call("poweroff", 0 - 1, 0, 0, <<>>)
            /\ UNCHANGED <<isOn, files, block_cache_max_items, putTracker, lastAccess>>
    /\ rt' = NoRt

block_open(path) ==
    /\ IF isOn = 0
       THEN /\ call' = Call("open", 0 - 1, 0, 0 - 1, <<>>)
            /\ UNCHANGED driverVars
       ELSE LET i == FindFile(files, nbFiles, path)
                found == i < nbFiles
            IN \* calls within the capacity of files[] and handles[]
               /\ nbHandles < BLOCK_MAX_TOTAL_FILES
               /\ found \/ nbFiles < BLOCK_MAX_TOTAL_FILES
               /\ files' = IF found THEN files
                           ELSE [files EXCEPT ![nbFiles] = createNewFile(path)]
               /\ nbFiles' = IF found THEN nbFiles ELSE nbFiles + 1
               /\ handles' = [handles EXCEPT ![nbHandles] = openFile(i)]
               /\ nbHandles' = nbHandles + 1
               /\ call' = Call("open", nbHandles, 0, nbHandles, <<>>)
               /\ UNCHANGED <<isOn, freeFrameNr>>
    /\ rt' = NoRt
    /\ snap' = <<>>
    /\ UNCHANGED <<cacheVars, device, window, powered>>

block_close(fd) ==
    /\ IF isOn = 0 \/ handles[fd].status = CLOSED
       THEN /\ call' = Call("close", fd, 0, 0 - 1, <<>>)
            /\ UNCHANGED handles
       ELSE /\ handles' = [handles EXCEPT ![fd] = closeFile(handles[fd])]
            /\ call' = Call("close", fd, 0, 0, <<>>)
    /\ rt' = NoRt
    /\ snap' = <<>>
    /\ UNCHANGED <<isOn, nbFiles, nbHandles, freeFrameNr, files, cacheVars, device,
                   window, powered>>

block_read(fd, count) ==
    /\ IF isOn = 0 \/ handles[fd].status = CLOSED
       THEN /\ call' = Call("read", fd, 0, 0 - 1, <<>>)
            /\ rt' = NoRt
            /\ UNCHANGED <<handles, cache, putTracker, lastAccess, window>>
       ELSE LET file == files[handles[fd].file]
                loc == handles[fd].loc
                cnt == ClampCount(file.size, loc, count)
            IN /\ \E ub \in Lookups(cacheOn, Iterations(loc, cnt)) :
                    LET r == ReadLoop([cs |-> [cache |-> cache, putTracker |-> putTracker,
                                               lastAccess |-> lastAccess],
                                       loc |-> loc, remaining |-> cnt,
                                       buf |-> <<>>, trace |-> <<>>],
                                      file, device, cacheOn, block_cache_max_items, ub)
                    IN /\ handles' = [handles EXCEPT ![fd].loc = r.loc]
                       /\ cache' = r.cs.cache
                       /\ putTracker' = r.cs.putTracker
                       /\ lastAccess' = r.cs.lastAccess
                       /\ window' = IF cacheOn = 0 THEN window
                                    ELSE Slide(window, r.trace, block_cache_max_items)
                       /\ call' = Call("read", fd, count, cnt, r.buf)
               /\ rt' = IF rt.stage = 2 /\ rt.fd = fd /\ count = Len(rt.data)
                        THEN [rt EXCEPT !.stage = 3] ELSE NoRt
    /\ snap' = <<>>
    /\ UNCHANGED <<isOn, nbFiles, nbHandles, freeFrameNr, files,
                   block_cache_max_items, cacheOn, device, powered>>

block_write(fd, buf) ==
    LET count == Len(buf)
        fi == handles[fd].file
        loc == handles[fd].loc
    IN
    /\ IF handles[fd].status = CLOSED
          \/ ~ allocateNewFrames_ok(files[fi], loc, count, freeFrameNr)
       THEN /\ call' = Call("write", fd, 0, 0 - 1, <<>>)
            /\ rt' = NoRt
            /\ UNCHANGED <<files, handles, freeFrameNr, cache, putTracker,
                           lastAccess, device, window>>
       ELSE LET file == allocateNewFrames(files[fi], loc, count, freeFrameNr)
            IN /\ \E ub \in Lookups(cacheOn, Iterations(loc, count)) :
                    LET r == WriteLoop([cs |-> [cache |-> cache, putTracker |-> putTracker,
                                                lastAccess |-> lastAccess],
                                        dev |-> device, loc |-> loc, remaining |-> count,
                                        bufOffset |-> 0, trace |-> <<>>],
                                       file, buf, cacheOn, block_cache_max_items, ub)
                    IN /\ handles' = [handles EXCEPT ![fd].loc = r.loc]
                       /\ files' = [files EXCEPT ![fi] =
                                      [file EXCEPT !.size = NewSize(file.size, r.loc)]]
                       /\ cache' = r.cs.cache
                       /\ putTracker' = r.cs.putTracker
                       /\ lastAccess' = r.cs.lastAccess
                       /\ device' = r.dev
                       /\ window' = IF cacheOn = 0 THEN window
                                    ELSE Slide(window, r.trace, block_cache_max_items)
               /\ freeFrameNr' = freeFrameNr + NewFrames(files[fi], loc, count)
               /\ call' = Call("write", fd, count, count, <<>>)
               /\ rt' = [stage |-> 1, fd |-> fd, p |-> loc, data |-> buf]
    /\ snap' = <<>>
    /\ UNCHANGED <<isOn, nbFiles, nbHandles, block_cache_max_items, cacheOn, powered>>

block_seek(fd, loc) ==
    /\ IF SeekFails(handles[fd].status,
                    IF handles[fd].status = CLOSED THEN 0 ELSE files[handles[fd].file].size,
                    loc)
       THEN /\ call' = Call("seek", fd, 0, 0 - 1, <<>>)
            /\ rt' = NoRt
            /\ UNCHANGED handles
       ELSE /\ handles' = [handles EXCEPT ![fd].loc = loc]
            /\ call' = Call("seek", fd, loc, 0, <<>>)
            /\ rt' = IF rt.stage = 1 /\ rt.fd = fd /\ rt.p = loc
                     THEN [rt EXCEPT !.stage = 2] ELSE NoRt
    /\ snap' = <<>>
    /\ UNCHANGED <<isOn, nbFiles, nbHandles, freeFrameNr, files, cacheVars, device,
                   window, powered>>

\* positions handed to block_seek
MaxPos == (MaxFrameNr - BLOCK_MAX_TOTAL_FILES) * BLOCK_FRAME_SIZE + 1

\* buffers handed to block_write: every length, neighbouring bytes differ
Buffers == { [k \in 1 .. n |-> 1 + ((k + n) % 2)] : n \in 0 .. MaxLen }

\* a run makes at most MaxCalls calls
Step == calls < MaxCalls /\ calls' = calls + 1

PowerOn == Step /\ block_poweron
PowerOff == Step /\ block_poweroff
Open == Step /\ \E path \in Paths : block_open(path)
Close == Step /\ \E fd \in FileIdx : block_close(fd)
Read == Step /\ \E fd \in FileIdx, count \in 0 .. MaxCount : block_read(fd, count)
Write == Step /\ \E fd \in FileIdx, buf \in Buffers : block_write(fd, buf)
Seek == Step /\ \E fd \in FileIdx, loc \in 0 .. MaxPos : block_seek(fd, loc)

Next == PowerOn \/ PowerOff \/ Open \/ Close \/ Read \/ Write \/ Seek

Spec == Init /\ [][Next]_vars

\* the same program after an earlier cache session of W16 - AgedGap puts of
\* one frame (init_block_cache, put ..., close_block_cache)
InitAged == InitWith(1, W16 - AgedGap)

SpecAged == InitAged /\ [][Next]_vars

----------------------------------------------------------------------------
(* block_cache.c: the public calls, made by a client of the cache alone.   *)

\* sizes handed to set_block_cache_size
CacheSizes == 1 .. DEFAULT_BLOCK_FRAME_CACHE_SIZE

\* frame numbers handed to put and get: one more than the largest cache holds
CacheFrames == 0 .. DEFAULT_BLOCK_FRAME_CACHE_SIZE

\* buffers handed to put
CacheBufs == { DataFrame([k \in 1 .. BLOCK_FRAME_SIZE |-> b]) : b \in 1 .. 2 }

\* entries malloc gave to cache
Allocated == Cardinality(DOMAIN cache)

\* the slots the loops of get and put visit: cache[0 .. max-1]
Visited(c, max) == [i \in 0 .. (max - 1) |-> c[i]]

\* the storage once the visited slots have been written back
Stored(c, v) == [i \in DOMAIN c |-> IF i \in DOMAIN v THEN v[i] ELSE c[i]]

set_block_cache_size(max_frames) ==
    /\ block_cache_max_items' = max_frames
    /\ call' = Call("configure", 0 - 1, max_frames, 0, <<>>)
    /\ UNCHANGED <<cache, putTracker, lastAccess, cacheOn>>

init_block_cache ==
    IF cacheOn # 0
    THEN /\ call' = Call("init", 0 - 1, 0, 0 - 1, <<>>)
         /\ UNCHANGED cacheVars
    ELSE /\ cache' = NewCache(block_cache_max_items)
         /\ cacheOn' = 1
         /\ call' = Call("init", 0 - 1, 0, 0, <<>>)
         /\ UNCHANGED <<block_cache_max_items, putTracker, lastAccess>>

close_block_cache ==
    IF cacheOn = 0
    THEN /\ call' = Call("shutdown", 0 - 1, 0, 0 - 1, <<>>)
         /\ UNCHANGED cacheVars
    ELSE /\ cache' = <<>>
         /\ cacheOn' = 0
         /\ call' = Call("shutdown", 0 - 1, 0, 0, <<>>)
         /\ UNCHANGED <<block_cache_max_items, putTracker, lastAccess>>

\* the globals as put_block_cache and get_block_cache see them
CacheState ==
    [cache |-> IF cacheOn = 0 THEN cache ELSE Visited(cache, block_cache_max_items),
     putTracker |-> putTracker,
     lastAccess |-> lastAccess]

CachePut(frm, buf) ==
    LET r == put_block_cache(CacheState, cacheOn, block_cache_max_items, 0, frm, buf)
    IN /\ cache' = IF cacheOn = 0 THEN cache ELSE Stored(cache, r.cache)
       /\ putTracker' = r.putTracker
       /\ lastAccess' = r.lastAccess
       /\ call' = Call("put", 0 - 1, frm, IF cacheOn = 0 THEN 0 - 1 ELSE 0,
                       FrameBytes(buf))
       /\ UNCHANGED <<block_cache_max_items, cacheOn>>

CacheGet(frm) ==
    \E ub \in (IF cacheOn = 0 THEN FreedOutcomes ELSE { NullPtr }) :
        LET g == get_block_cache(CacheState, cacheOn, 0, frm, ub)
        IN /\ cache' = IF cacheOn = 0 THEN cache ELSE Stored(cache, g.cs.cache)
           /\ putTracker' = g.cs.putTracker
           /\ lastAccess' = g.cs.lastAccess
           /\ call' = Call("get", 0 - 1, frm, IF g.hit THEN 0 ELSE 0 - 1,
                           IF g.hit THEN FrameBytes(g.frame) ELSE <<>>)
           /\ UNCHANGED <<block_cache_max_items, cacheOn>>

\* the client touches nothing of the driver
CacheOnly == UNCHANGED <<driverVars, device, rt, snap, window, powered>>

\* a size within the storage malloc gave, while there is storage
Configure ==
    /\ Step
    /\ \E max \in CacheSizes :
          /\ cacheOn = 0 \/ max <= Allocated
          /\ set_block_cache_size(max)
    /\ CacheOnly
InitCache == Step /\ init_block_cache /\ CacheOnly
CloseCache == Step /\ close_block_cache /\ CacheOnly
Put == Step /\ (\E frm \in CacheFrames, buf \in CacheBufs : CachePut(frm, buf)) /\ CacheOnly
Get == Step /\ (\E frm \in CacheFrames : CacheGet(frm)) /\ CacheOnly

NextCache == Configure \/ InitCache \/ CloseCache \/ Put \/ Get

SpecCache == Init /\ [][NextCache]_vars

\* the cache after an earlier session that wore the counter down
SpecCacheAged == InitAged /\ [][NextCache]_vars

----------------------------------------------------------------------------
(* block_open when a table has no room.  The function tests neither        *)
(* nbFiles nor nbHandles, so createNewFile or openFile writes to the slot  *)
(* after the last one; a run is followed up to that call.                  *)

\* "a", "ab" and a third name, "b"
MorePaths == Paths \cup { <<2>> }

\* what the write to files[BLOCK_MAX_TOTAL_FILES] can leave in handles[], the
\* array declared after files[]: nothing, or a slot overwritten
PastFiles(hs) ==
    { hs } \cup { [hs EXCEPT ![0] = h] : h \in { ZeroHandle, openFile(0) } }

block_open_overflow(path) ==
    LET i == FindFile(files, nbFiles, path)
        found == i < nbFiles
    IN /\ isOn # 0
       /\ ~ (nbHandles < BLOCK_MAX_TOTAL_FILES
             /\ (found \/ nbFiles < BLOCK_MAX_TOTAL_FILES))
       /\ files' = IF found \/ nbFiles >= BLOCK_MAX_TOTAL_FILES THEN files
                   ELSE [files EXCEPT ![nbFiles] = createNewFile(path)]
       /\ nbFiles' = IF found THEN nbFiles ELSE nbFiles + 1
       /\ \E hs \in (IF found \/ nbFiles < BLOCK_MAX_TOTAL_FILES
                     THEN { handles } ELSE PastFiles(handles)) :
             handles' = IF nbHandles < BLOCK_MAX_TOTAL_FILES
                        THEN [hs EXCEPT ![nbHandles] = openFile(i)]
                        ELSE hs
       /\ nbHandles' = nbHandles + 1
       /\ call' = Call("open", nbHandles, 0, nbHandles, <<>>)
       /\ rt' = NoRt
       /\ snap' = <<>>
       /\ UNCHANGED <<isOn, freeFrameNr, cacheVars, device, window, powered>>

\* no slot past a table has been written
InBounds == nbFiles <= BLOCK_MAX_TOTAL_FILES /\ nbHandles <= BLOCK_MAX_TOTAL_FILES

OvPowerOn == InBounds /\ PowerOn
OvPowerOff == InBounds /\ PowerOff
OvOpen == InBounds /\ Step /\ \E path \in MorePaths : block_open(path)
OvOpenPast == InBounds /\ Step /\ \E path \in MorePaths : block_open_overflow(path)
OvClose == InBounds /\ Close
OvRead == InBounds /\ Read
OvWrite == InBounds /\ Write
OvSeek == InBounds /\ Seek

NextOverflow ==
    OvPowerOn \/ OvPowerOff \/ OvOpen \/ OvOpenPast \/ OvClose \/ OvRead
        \/ OvWrite \/ OvSeek

SpecOverflow == Init /\ [][NextOverflow]_vars

----------------------------------------------------------------------------
(* The driver with a client that also starts and stops the cache itself,   *)
(* through init_block_cache and close_block_cache.                         *)

NextShared == Next \/ InitCache \/ CloseCache

SpecShared == Init /\ [][NextShared]_vars

TypeOK ==
    /\ isOn \in 0 .. 1
    /\ cacheOn \in 0 .. 1
    /\ nbFiles \in 0 .. BLOCK_MAX_TOTAL_FILES
    /\ nbHandles \in 0 .. BLOCK_MAX_TOTAL_FILES
    /\ freeFrameNr \in 0 .. MaxFrameNr
    /\ lastAccess \in 0 .. (W16 - 1)
    /\ putTracker \in 0 .. block_cache_max_items

----------------------------------------------------------------------------
(* Vocabulary of the properties.                                           *)

HandleOpen(fd) == handles[fd].status = OPEN
FileOf(fd) == files[handles[fd].file]

\* the bytes of a file as the device holds them
FileBytes(file, dev) ==
    [k \in 1 .. (Len(file.frames) * BLOCK_FRAME_SIZE) |->
        FrameBytes(dev[file.frames[((k - 1) \div BLOCK_FRAME_SIZE) + 1]])
                  [((k - 1) % BLOCK_FRAME_SIZE) + 1]]

Range(bytes, p, n) == SubSeq(bytes, p + 1, p + n)

Distinct(w) == \A i, j \in DOMAIN w : i # j => w[i] # w[j]

Cached(frm) == FindSlot(cache, frm) # 0 - 1

AnyOpen == \E path \in Paths : block_open(path)
AnyClose(fd) == block_close(fd)
AnyRead(fd) == \E count \in 0 .. MaxCount : block_read(fd, count)
AnyWrite(fd) == \E buf \in Buffers : block_write(fd, buf)
AnySeek(fd) == \E loc \in 0 .. MaxPos : block_seek(fd, loc)

----------------------------------------------------------------------------
(* C1: a write of n bytes at p, then seek to p, then a read of n bytes     *)
(* through the same handle returns n and the bytes written.                *)
C1_RoundTrip ==
    rt.stage = 3 => (call.ret = Len(rt.data) /\ call.buf = rt.data)

(* C2: block_poweron succeeds exactly when the system is off and           *)
(* block_poweroff exactly when it is on; after a successful power-off the  *)
(* on/off flag is off, the next power-on succeeds and a second power-off   *)
(* fails.                                                                  *)
C2_PowerAlternates ==
    [][ /\ block_poweron => (call'.ret = 0 <=> powered = 0)
        /\ block_poweroff => (call'.ret = 0 <=> powered = 1)
        /\ (block_poweroff /\ call'.ret = 0) => isOn' = 0
        /\ (call.op = "poweroff" /\ call.ret = 0 /\ block_poweron) => call'.ret = 0
        /\ (call.op = "poweroff" /\ call.ret = 0 /\ block_poweroff) => call'.ret = 0 - 1
      ]_vars

(* C3: after block_poweroff followed by block_poweron every file written   *)
(* before the power-off is in the file table with the size and the frame   *)
(* list it had.                                                            *)
C3_MetadataRoundTrip ==
    [][ (call.op = "poweroff" /\ call.ret = 0 /\ block_poweron) =>
            \A i \in DOMAIN snap :
                snap[i].size > 0 =>
                    /\ i < nbFiles'
                    /\ files'[i].size = snap[i].size
                    /\ files'[i].frames = snap[i].frames
      ]_vars

(* C4: every valid cache entry holds what the device holds for its frame,  *)
(* that is, the frame of the latest write.                                 *)
C4_Coherent ==
    \A i \in DOMAIN cache :
        cache[i].frm # NoFrame => cache[i].cacheFrame = device[cache[i].frm]

C4_Witness ==
    /\ call.op = "write"
    /\ nbHandles = 2
    /\ \E i \in DOMAIN cache :
          /\ cache[i].frm # NoFrame
          /\ cache[i].access >= 3
          /\ \A k \in 1 .. BLOCK_FRAME_SIZE : FrameBytes(cache[i].cacheFrame)[k] # 0

(* C5: once capacity+1 distinct frames have gone through the cache one     *)
(* after the other, the first of them is no longer cached and the last is. *)
C5_LruEviction ==
    (cacheOn = 1 /\ Len(window) = block_cache_max_items + 1 /\ Distinct(window)) =>
        (~ Cached(window[1]) /\ Cached(window[Len(window)]))

(* C6: a read of count bytes through an open handle at cursor c of a file  *)
(* of size s returns min(count, s - c), moves the cursor by that much and  *)
(* does not fail.                                                          *)
C6_ReadClamp ==
    [][ (call'.op = "read" /\ HandleOpen(call'.fd)) =>
            LET fd == call'.fd
                count == call'.n
                c == handles[fd].loc
                s == FileOf(fd).size
            IN /\ call'.ret = Min(count, s - c)
               /\ handles'[fd].loc = c + call'.ret
               /\ Len(call'.buf) = call'.ret
      ]_vars

C6_Witness ==
    /\ call.op = "read"
    /\ call.ret > 0
    /\ call.ret < call.n
    /\ handles[call.fd].loc = FileOf(call.fd).size

(* C7: block_seek on an open handle fails and leaves the cursor alone when  *)
(* the position is past the file size; otherwise (the size included) it    *)
(* succeeds and sets the cursor, and the next read or write through the    *)
(* handle covers the bytes from that position on.                          *)
C7_Seek ==
    [][ \A fd \in FileIdx :
          /\ \A p \in 0 .. MaxPos :
                (HandleOpen(fd) /\ block_seek(fd, p)) =>
                    IF p > FileOf(fd).size
                    THEN call'.ret = 0 - 1 /\ handles' = handles
                    ELSE call'.ret = 0 /\ handles'[fd].loc = p
          /\ (call.op = "seek" /\ call.ret = 0 /\ call.fd = fd /\ call'.fd = fd) =>
                /\ (call'.op = "read") =>
                      /\ call'.ret # 0 - 1
                      /\ handles'[fd].loc = call.n + call'.ret
                      /\ cacheOn = 1 =>
                            call'.buf = Range(FileBytes(FileOf(fd), device),
                                              call.n, call'.ret)
                /\ (call'.op = "write" /\ call'.ret # 0 - 1) =>
                      /\ handles'[fd].loc = call.n + call'.ret
                      /\ Range(FileBytes(files'[handles[fd].file], device'),
                               call.n, call'.ret) = rt'.data
      ]_vars

\* a read that followed a successful seek to a position past 0
C7_Witness ==
    /\ powered = 1
    /\ rt.stage = 3
    /\ rt.p > 0
    /\ call.op = "read"
    /\ call.ret > 0
    /\ handles[call.fd].loc = rt.p + call.ret

(* C8: a successful write of n bytes at cursor c returns n, leaves the     *)
(* cursor at c + n and the size at max(size, c + n); into an empty file at *)
(* cursor 0 it leaves size n and ceil(n / frame size) frames.              *)
C8_WriteGrowth ==
    [][ (call'.op = "write" /\ call'.ret # 0 - 1) =>
            LET fd == call'.fd
                c == handles[fd].loc
                n == Len(rt'.data)
                old == FileOf(fd)
                new == files'[handles[fd].file]
            IN /\ call'.ret = n
               /\ handles'[fd].loc = c + n
               /\ new.size = Max(old.size, c + n)
               /\ new.size >= old.size
               /\ (old.size = 0 /\ old.frames = <<>> /\ c = 0) =>
                      /\ new.size = n
                      /\ Len(new.frames) * BLOCK_FRAME_SIZE >= n
                      /\ Len(new.frames) * BLOCK_FRAME_SIZE < n + BLOCK_FRAME_SIZE
      ]_vars

C8_Witness ==
    /\ call.op = "write"
    /\ call.ret > 0
    /\ handles[call.fd].loc < FileOf(call.fd).size
    /\ Len(FileOf(call.fd).frames) > 1

(* C9 as stated: a handle opens only by block_open and closes only by      *)
(* block_close; calls on a closed or never opened handle fail and change   *)
(* nothing; a closed handle stays closed for the rest of the power cycle.  *)
ClosedCallsFail ==
    \A fd \in FileIdx :
        (~ HandleOpen(fd) /\
         (AnyClose(fd) \/ AnyRead(fd) \/ AnyWrite(fd) \/ AnySeek(fd))) =>
            /\ call'.ret = 0 - 1
            /\ UNCHANGED <<driverVars, cacheVars, device>>

OpensOnlyByOpen ==
    \A fd \in FileIdx :
        (~ HandleOpen(fd) /\ handles'[fd].status = OPEN) =>
            (AnyOpen /\ call'.ret = fd)

ClosedStaysClosed ==
    \A fd \in FileIdx :
        (fd < nbHandles /\ ~ HandleOpen(fd)) => handles'[fd].status = CLOSED

C9_HandleMachine ==
    [][ /\ \A fd \in FileIdx :
              (HandleOpen(fd) /\ handles'[fd].status = CLOSED) => AnyClose(fd)
        /\ OpensOnlyByOpen
        /\ ClosedCallsFail
        /\ ClosedStaysClosed
      ]_vars

(* C9 amended: as C9, but a handle also closes by a successful             *)
(* block_poweroff, which closes every handle.                              *)
C9_HandleMachineAmended ==
    [][ /\ \A fd \in FileIdx :
              (HandleOpen(fd) /\ handles'[fd].status = CLOSED) =>
                  (AnyClose(fd) \/ (block_poweroff /\ call'.ret = 0))
        /\ OpensOnlyByOpen
        /\ ClosedCallsFail
        /\ ClosedStaysClosed
      ]_vars

\* a call failed on a handle that had been opened, used and closed, while
\* another handle was still open
C9_Witness ==
    /\ call.op \in { "read", "write", "seek", "close" }
    /\ call.ret = 0 - 1
    /\ powered = 1
    /\ call.fd < nbHandles
    /\ handles[call.fd].status = CLOSED
    /\ handles[call.fd].loc > 0
    /\ \E other \in FileIdx : handles[other].status = OPEN

(* C10: while the system is off (before the first power-on or after a      *)
(* successful power-off) open, close, read, write and seek fail and change *)
(* no file, handle, cache or device state.                                 *)
C10_OffRejects ==
    [][ (powered = 0 /\
         (AnyOpen \/ \E fd \in FileIdx :
                        AnyClose(fd) \/ AnyRead(fd) \/ AnyWrite(fd) \/ AnySeek(fd))) =>
            /\ call'.ret = 0 - 1
            /\ UNCHANGED <<driverVars, cacheVars, device>>
      ]_vars

(* C11: while powered on, block_open(path) binds the new handle to the     *)
(* file table entry matching path (the comparison of the name over the     *)
(* length of path) and creates nothing; only when no entry matches it      *)
(* appends an entry of size 0 with no frames at slot nbFiles.  No existing *)
(* entry changes; the new handle has cursor 0 and status open.             *)
C11_OpenResolution ==
    [][ \A path \in Paths :
          (powered = 1 /\ block_open(path)) =>
              LET fd == call'.ret
                  matches == { i \in 0 .. (nbFiles - 1) :
                                  NameMatches(files[i].name, path) }
              IN /\ fd = nbHandles
                 /\ handles'[fd].loc = 0
                 /\ handles'[fd].status = OPEN
                 /\ \A i \in 0 .. (nbFiles - 1) : files'[i] = files[i]
                 /\ IF matches # {}
                    THEN /\ handles'[fd].file \in matches
                         /\ nbFiles' = nbFiles
                         /\ files' = files
                    ELSE /\ handles'[fd].file = nbFiles
                         /\ nbFiles' = nbFiles + 1
                         /\ files'[nbFiles] =
                               [name |-> path, size |-> 0, frames |-> <<>>]
      ]_vars

\* a second handle was opened on a file that already holds data; the first
\* handle is still open
C11_Witness ==
    /\ powered = 1
    /\ call.op = "open"
    /\ call.ret = 1
    /\ handles[0].status = OPEN
    /\ handles[1].file = handles[0].file
    /\ FileOf(1).size > 0
    /\ handles[1].loc = 0

\* slots holding a frame, and the frames they hold
ValidSlots(c) == { i \in DOMAIN c : c[i].frm # NoFrame }
CachedFrames(c) == { c[i].frm : i \in ValidSlots(c) }

(* C12: while the cache is initialized the number of valid entries is at   *)
(* most block_cache_max_items and no frame number sits in two slots; a put *)
(* of a frame that has an entry writes that entry and evicts nothing.      *)
C12_BoundUnique ==
    [][ /\ cacheOn' = 1 =>
              /\ Cardinality(ValidSlots(cache')) <= block_cache_max_items'
              /\ \A i, j \in ValidSlots(cache') :
                    cache'[i].frm = cache'[j].frm => i = j
        /\ (cacheOn = 1 /\ call'.op = "put" /\ call'.n \in CachedFrames(cache)) =>
              /\ CachedFrames(cache') = CachedFrames(cache)
              /\ \A i \in DOMAIN cache :
                    IF cache[i].frm = call'.n
                    THEN FrameBytes(cache'[i].cacheFrame) = call'.buf
                    ELSE cache'[i] = cache[i]
      ]_vars

(* C13: set_block_cache_size fails and leaves block_cache_max_items alone  *)
(* while the cache is on; while it is off it succeeds and sets the size.   *)
C13_ConfigureWhenOff ==
    [][ call'.op = "configure" =>
            IF cacheOn = 1
            THEN /\ call'.ret = 0 - 1
                 /\ block_cache_max_items' = block_cache_max_items
            ELSE /\ call'.ret = 0
                 /\ block_cache_max_items' = call'.n
      ]_vars

(* C14: get, put and shutdown on a cache that is not initialized report an *)
(* error and touch nothing of the cache; initialize on an initialized      *)
(* cache fails; on an initialized cache put succeeds and get returns       *)
(* either nothing or the contents stored for the frame.                    *)
C14_LifecycleErrors ==
    [][ /\ (cacheOn = 0 /\ call'.op \in { "get", "put", "shutdown" }) =>
              /\ call'.ret = 0 - 1
              /\ UNCHANGED cacheVars
        /\ (cacheOn = 1 /\ call'.op = "init") =>
              /\ call'.ret = 0 - 1
              /\ UNCHANGED cacheVars
        /\ (cacheOn = 1 /\ call'.op = "put") => call'.ret = 0
        /\ (cacheOn = 1 /\ call'.op = "get" /\ call'.ret # 0 - 1) =>
              \E i \in ValidSlots(cache) :
                  /\ cache[i].frm = call'.n
                  /\ FrameBytes(cache[i].cacheFrame) = call'.buf
      ]_vars

\* block_open(path) finds no room: the handle table is full, or the file
\* table is full and no entry matches path
NoRoom(path) ==
    \/ nbHandles >= BLOCK_MAX_TOTAL_FILES
    \/ /\ nbFiles >= BLOCK_MAX_TOTAL_FILES
       /\ FindFile(files, nbFiles, path) = nbFiles

(* C15: block_open with the handle table full, or with the file table full *)
(* and a path that names a new file, fails and leaves nbFiles, nbHandles   *)
(* and both tables as they were.                                           *)
C15_OpenExhaustion ==
    [][ \A path \in MorePaths :
          (NoRoom(path) /\ (block_open(path) \/ block_open_overflow(path))) =>
              /\ call'.ret = 0 - 1
              /\ UNCHANGED <<nbFiles, nbHandles, files, handles>>
      ]_vars

DriverOps == { "poweron", "poweroff", "open", "close", "read", "write", "seek" }

(* C16: a driver call that returns failure leaves isOn, every file's size, *)
(* every handle's cursor and status, and the cache contents as they were.  *)
C16_FailureAtomic ==
    [][ (call'.op \in DriverOps /\ call'.ret = 0 - 1) =>
            /\ isOn' = isOn
            /\ \A i \in FileIdx : files'[i].size = files[i].size
            /\ \A fd \in FileIdx :
                  /\ handles'[fd].loc = handles[fd].loc
                  /\ handles'[fd].status = handles[fd].status
            /\ cache' = cache
      ]_vars

(* C17: the cursor of every open handle is at most the size of its file,   *)
(* also when several handles are open on the file and any of them reads,   *)
(* writes or seeks.                                                        *)
C17_CursorBound ==
    \A fd \in FileIdx : HandleOpen(fd) => handles[fd].loc <= FileOf(fd).size

\* two handles open on one file: one has written up to the end of the file,
\* the other has moved to a position inside it
C17_Witness ==
    /\ powered = 1
    /\ HandleOpen(0)
    /\ HandleOpen(1)
    /\ handles[0].file = handles[1].file
    /\ call.op \in { "read", "seek" }
    /\ call.ret # 0 - 1
    /\ \E a, b \in FileIdx :
          /\ a # b
          /\ call.fd = b
          /\ handles[a].loc = FileOf(a).size
          /\ handles[b].loc > 0
          /\ handles[b].loc < FileOf(b).size

\* the slot that received frame frm, when exactly one slot changed
Received(c, d, s, frm) ==
    /\ d[s].frm = frm
    /\ \A i \in DOMAIN c : i # s => d[i] = c[i]

(* C18: a put of a frame that has no entry goes to the lowest empty slot   *)
(* when a slot is empty, and no valid entry is lost; when no slot is empty *)
(* it replaces the entry with the lowest recency, the lowest slot among    *)
(* equals.  The slots are the block_cache_max_items slots of the cache;    *)
(* this holds in every session, also after a shutdown and an initialize.   *)
C18_PutSlot ==
    [][ LET c == Visited(cache, block_cache_max_items)
            d == Visited(cache', block_cache_max_items)
            empty == { i \in DOMAIN c : c[i].frm = NoFrame }
        IN (cacheOn = 1 /\ call'.op = "put" /\ call'.n \notin CachedFrames(c)) =>
              \E s \in DOMAIN c :
                  /\ Received(c, d, s, call'.n)
                  /\ IF empty # {}
                     THEN s \in empty /\ \A i \in empty : s <= i
                     ELSE /\ \A j \in DOMAIN c : c[s].access <= c[j].access
                          /\ \A j \in DOMAIN c : j < s => c[j].access > c[s].access
      ]_vars

(* C19: lastAccess goes up on every get that hits and on every put, and    *)
(* never goes down or back to a value it had, across shutdown and          *)
(* initialize too; so the entry touched last has a recency above that of   *)
(* every other valid entry.                                                *)
C19_RecencyMonotone ==
    [][ /\ lastAccess' >= lastAccess
        /\ (cacheOn = 1 /\ call'.op \in { "put", "get" } /\ call'.ret = 0) =>
              /\ lastAccess' > lastAccess
              /\ \E s \in ValidSlots(cache') :
                    /\ cache'[s].frm = call'.n
                    /\ \A j \in ValidSlots(cache') :
                          j # s => cache'[j].access < cache'[s].access
      ]_vars

\* the frames of file that a write of n bytes at p goes through
Touched(file, p, n) ==
    IF n = 0 THEN {}
    ELSE { file.frames[idx + 1] :
             idx \in (p \div BLOCK_FRAME_SIZE) .. ((p + n - 1) \div BLOCK_FRAME_SIZE) }

(* C20: a successful write of n bytes at cursor p puts the bytes written   *)
(* at [p, p+n) and changes no other byte of the file below its old size,   *)
(* in particular not the rest of a frame it covers only in part; every     *)
(* frame it went through is on the device and in the cache with the same   *)
(* contents.                                                               *)
C20_PartialOverlay ==
    [][ (call'.op = "write" /\ call'.ret # 0 - 1) =>
            LET fd == call'.fd
                p == handles[fd].loc
                n == call'.ret
                old == FileOf(fd)
                new == files'[handles[fd].file]
                before == FileBytes(old, device)
                after == FileBytes(new, device')
            IN /\ Range(after, p, n) = rt'.data
               /\ \A k \in 1 .. old.size :
                     (k <= p \/ k > p + n) => after[k] = before[k]
               /\ \A f \in Touched(new, p, n) :
                     \E i \in DOMAIN cache' :
                         /\ cache'[i].frm = f
                         /\ cache'[i].cacheFrame = device'[f]
      ]_vars

====
